---- MODULE Spec2Model ----
(***************************************************************************)
(* Intersection curves of truck-geometry: the double-projection solver     *)
(* (double_projection) and the IntersectionCurve decorator built on it     *)
(* (search_triple, subs, der, cut, invert, search_parameter,               *)
(* search_nearest_parameter, transform_by).                                *)
(*                                                                         *)
(* Points and vectors are triples of integers: one unit is one step of the *)
(* grid the model works on.  Surfaces are planes given by an origin and    *)
(* two parameter directions, the leader is a straight line.  With          *)
(* orthonormal axis frames and directions whose entries are -1, 0 or 1     *)
(* every quantity the solver computes is an integer, so the arithmetic of  *)
(* the model is exact.                                                     *)
(***************************************************************************)
EXTENDS Integers, Sequences, FiniteSets, TLC

VARIABLES
    surface0, surface1,   \* double_projection: the two surfaces
    hint0, hint1,         \* double_projection: the optional parameter hints
    normal,               \* double_projection: the direction vector
    trials,               \* double_projection: the outer trial budget
    point, uv0, uv1,      \* double_projection: the locals of the same names
    pc,                   \* where the running call is: start, loop, done
    iters,                \* loop iterations entered by the running call
    searches,             \* nearest-parameter searches made by the running call
    corrections,          \* linear-correction steps taken by the running call
    passed,               \* whether an iteration of the running call passed the check
    result,               \* what the call returned (None: absent), once pc = "done"
    prior,                \* the triple a first call returned, once it is fed back
    curve,                \* the IntersectionCurve the operations act on
    piece,                \* the IntersectionCurve a cut returned (None before)
    store,                \* the boxed surfaces: box id -> surface
    op,                   \* the last operation applied, with its arguments
    out,                  \* what the last operation returned
    base,                 \* curve as it was before the current run of inverts
    inverts,              \* the length of the current run of inverts
    before                \* curve, piece and store before the last operation

dpvars == <<surface0, surface1, hint0, hint1, normal, trials, point, uv0, uv1,
            pc, iters, searches, corrections, passed, result, prior>>
cvvars == <<curve, piece, store, op, out, base, inverts, before>>
vars == <<dpvars, cvvars>>

\* an absent Option; Some(x) is x itself when x is a tuple
None == << >>

----------------------------------------------------------------------------
(* Bounds of the model.                                                    *)

\* start points have coordinates in -1..MaxCoord
MaxCoord == 2
\* planes lie at offsets 0..MaxOff along their normal
MaxOff == 2
\* outer trial budgets 0..MaxTrials are tried
MaxTrials == 2

----------------------------------------------------------------------------
(* Vectors, points and the tolerance.                                      *)

\* TOLERANCE of truck-base, in grid units: two points are near when every
\* coordinate differs by at most Tol.
Tol == 1

Abs(x) == IF x < 0 THEN -x ELSE x

Dot(v, w) == v[1] * w[1] + v[2] * w[2] + v[3] * w[3]

Cross(v, w) ==
    << v[2] * w[3] - v[3] * w[2],
       v[3] * w[1] - v[1] * w[3],
       v[1] * w[2] - v[2] * w[1] >>

Add(v, w) == << v[1] + w[1], v[2] + w[2], v[3] + w[3] >>

Sub(v, w) == << v[1] - w[1], v[2] - w[2], v[3] - w[3] >>

Scale(k, v) == << k * v[1], k * v[2], k * v[3] >>

Zero3 == << 0, 0, 0 >>

Near(p, q) == \A i \in 1..3 : Abs(p[i] - q[i]) <= Tol

----------------------------------------------------------------------------
(* The surface capability, on planes.  A surface is a record [o, a, b]:    *)
(* the plane through o spanned by the parameter directions a and b.        *)

\* parameters of a patch lie in -MaxParam..MaxParam
MaxParam == 1

\* ParametricSurface::subs
SurfaceSubs(s, uv) == Add(s.o, Add(Scale(uv[1], s.a), Scale(uv[2], s.b)))

\* ParametricSurface::normal: the unit normal, a x b for an orthonormal frame
SurfaceNormal(s, uv) == Cross(s.a, s.b)

InWindow(uv) == Abs(uv[1]) <= MaxParam /\ Abs(uv[2]) <= MaxParam

\* SearchNearestParameter::search_nearest_parameter of a surface: the
\* parameter of the foot of the perpendicular from p.  On a plane the Newton
\* iteration reaches the foot from any hint in one step, so the answer does
\* not depend on the hint or on the inner budget; the search does not
\* converge (None) when the foot lies outside the patch.
SurfaceSearch(s, p, hint, n) ==
    LET uv == << Dot(Sub(p, s.o), s.a), Dot(Sub(p, s.o), s.b) >>
    IN  IF InWindow(uv) THEN uv ELSE None

----------------------------------------------------------------------------
(* Matrix3 of cgmath, as far as double_projection uses it.                 *)

\* Matrix3::from_cols(r1, r2, r3).transpose(): the matrix with rows r1, r2, r3
MatFromRows(r1, r2, r3) == << r1, r2, r3 >>

Determinant(m) == Dot(m[1], Cross(m[2], m[3]))

\* an inversion that does not look at the determinant
MatInvertUnchecked(m) ==
    << IF Determinant(m) = 0 THEN 1 ELSE Determinant(m),
       << Cross(m[2], m[3]), Cross(m[3], m[1]), Cross(m[1], m[2]) >> >>

\* Matrix3::invert: None when the determinant is zero, else the inverse, kept
\* as its adjugate (by columns) and the determinant
MatInvert(m) ==
    IF Determinant(m) = 0 THEN None
    ELSE << Determinant(m),
            << Cross(m[2], m[3]), Cross(m[3], m[1]), Cross(m[1], m[2]) >> >>

\* inv * v.  The division is exact: the determinant of two axis normals and a
\* direction with entries in -1..1 is 1 or -1.
MatApply(inv, v) ==
    LET det  == inv[1]
        cols == inv[2]
        w    == Add(Scale(v[1], cols[1]),
                    Add(Scale(v[2], cols[2]), Scale(v[3], cols[3])))
    IN  << (w[1] * det) \div (det * det),
           (w[2] * det) \div (det * det),
           (w[3] * det) \div (det * det) >>

----------------------------------------------------------------------------
(* double_projection.                                                      *)

\* the budget of every surface search double_projection makes
InnerTrials == 10

\* a check that forgets to compare the two surface points
ConvergedNoPair(pt, pt0, pt1) == Near(pt, pt0) /\ Near(pt, pt1)

\* a check that accepts when any one of the three holds
ConvergedAny(pt, pt0, pt1) == Near(pt, pt0) \/ Near(pt, pt1) \/ Near(pt0, pt1)

\* line 27: the three proximity checks
Converged(pt, pt0, pt1) == Near(pt, pt0) /\ Near(pt, pt1) /\ Near(pt0, pt1)

\* lines 30-35: the linear-correction step; None when the matrix is singular
Correction(s0, s1, d, pt, u0, u1) ==
    LET pt0 == SurfaceSubs(s0, u0)
        pt1 == SurfaceSubs(s1, u1)
        n0  == SurfaceNormal(s0, u0)
        n1  == SurfaceNormal(s1, u1)
        inv == MatInvert(MatFromRows(n0, n1, d))
    IN  IF inv = None THEN None
        ELSE MatApply(inv, << Dot(pt0, n0), Dot(pt1, n1), Dot(pt, d) >>)

\* a loop that runs 0..=trials
BudgetLeftInclusive(i, n) == i <= n

\* line 20: for _ in 0..trials, after i passes
BudgetLeft(i, n) == i < n

\* what one pass through the loop body does
Outcome(tag, pt, u0, u1, ns, nc) ==
    [ tag |-> tag, point |-> pt, uv0 |-> u0, uv1 |-> u1,
      searches |-> ns, corrections |-> nc ]

\* a pass that takes the correction step before it checks
LoopBodyCorrectFirst(s0, s1, d, pt, u0, u1) ==
    LET nu0 == SurfaceSearch(s0, pt, u0, InnerTrials)
    IN  IF nu0 = None THEN Outcome("fail", pt, u0, u1, 1, 0)
        ELSE
        LET nu1 == SurfaceSearch(s1, pt, u1, InnerTrials)
        IN  IF nu1 = None THEN Outcome("fail", pt, nu0, u1, 2, 0)
            ELSE
            LET npt == Correction(s0, s1, d, pt, nu0, nu1)
            IN  IF npt = None THEN Outcome("fail", pt, nu0, nu1, 2, 0)
                ELSE IF Converged(npt, SurfaceSubs(s0, nu0), SurfaceSubs(s1, nu1))
                THEN Outcome("return", npt, nu0, nu1, 2, 1)
                ELSE Outcome("next", npt, nu0, nu1, 2, 1)

\* lines 23-36: one pass through the loop body from (pt, u0, u1): "return"
\* (line 28), "fail" (one of the ? at lines 23, 25, 33) or "next"
LoopBody(s0, s1, d, pt, u0, u1) ==
    LET nu0 == SurfaceSearch(s0, pt, u0, InnerTrials)
    IN  IF nu0 = None THEN Outcome("fail", pt, u0, u1, 1, 0)
        ELSE
        LET nu1 == SurfaceSearch(s1, pt, u1, InnerTrials)
        IN  IF nu1 = None THEN Outcome("fail", pt, nu0, u1, 2, 0)
            ELSE IF Converged(pt, SurfaceSubs(s0, nu0), SurfaceSubs(s1, nu1))
            THEN Outcome("return", pt, nu0, nu1, 2, 0)
            ELSE
            LET npt == Correction(s0, s1, d, pt, nu0, nu1)
            IN  IF npt = None THEN Outcome("fail", pt, nu0, nu1, 2, 0)
                ELSE Outcome("next", npt, nu0, nu1, 2, 1)

\* the (Point3, Point2, Point2) a successful call returns
Triple(pt, u0, u1) == << pt, u0, u1 >>

\* lines 20-43: the loop of budget n after i passes
RECURSIVE Loop(_, _, _, _, _, _, _, _)
Loop(s0, s1, d, pt, u0, u1, i, n) ==
    IF ~BudgetLeft(i, n) THEN None
    ELSE LET o == LoopBody(s0, s1, d, pt, u0, u1)
         IN  CASE o.tag = "return" -> Triple(o.point, o.uv0, o.uv1)
               [] o.tag = "fail"   -> None
               [] OTHER -> Loop(s0, s1, d, o.point, o.uv0, o.uv1, i + 1, n)

\* lines 4-44: the whole call
DoubleProjection(s0, h0, s1, h1, pt, d, n) ==
    LET u0 == SurfaceSearch(s0, pt, h0, InnerTrials)
    IN  IF u0 = None THEN None
        ELSE LET u1 == SurfaceSearch(s1, pt, h1, InnerTrials)
             IN  IF u1 = None THEN None
                 ELSE Loop(s0, s1, d, pt, u0, u1, 0, n)

----------------------------------------------------------------------------
(* The inputs the solver is run on.                                        *)

Ex == << 1, 0, 0 >>
Ey == << 0, 1, 0 >>
Ez == << 0, 0, 1 >>

\* parameter frames: z-planes by (x, y), x-planes by (y, z), y-planes by
\* (z, x), and z-planes by (y, x), whose normal points down
Frames == { << Ex, Ey >>, << Ey, Ez >>, << Ez, Ex >>, << Ey, Ex >> }

PlaneAt(f, h) == [ o |-> Scale(h, Cross(f[1], f[2])), a |-> f[1], b |-> f[2] ]

Surfaces == { PlaneAt(f, h) : f \in Frames, h \in 0..MaxOff }

\* the first surface of a run is a z-plane; the second is any plane
ZPlanes == { PlaneAt(<< Ex, Ey >>, h) : h \in 0..MaxOff }

Coords == (0 - 1)..MaxCoord

Points == { << x, y, z >> : x \in Coords, y \in Coords, z \in Coords }

\* direction vectors: the axes, two diagonals and the zero vector
Dirs == { Ex, Ey, Ez, << 1, 1, 1 >>, << 1, -1, 0 >>, Zero3 }

CurveIdle ==
    /\ curve = None /\ piece = None /\ store = << >> /\ op = << >>
    /\ out = None /\ base = None /\ inverts = 0 /\ before = None

\* the state at the call of double_projection; like search_triple, the first
\* call passes no hints
InitDP ==
    /\ surface0 \in ZPlanes
    /\ surface1 \in Surfaces
    /\ hint0 = None /\ hint1 = None
    /\ normal \in Dirs
    /\ trials \in 0..MaxTrials
    /\ point \in Points
    /\ uv0 = None /\ uv1 = None
    /\ pc = "start"
    /\ iters = 0 /\ searches = 0 /\ corrections = 0
    /\ passed = FALSE
    /\ result = None
    /\ prior = None
    /\ CurveIdle

\* lines 18-19: the two searches before the loop
DPBegin ==
    /\ pc = "start"
    /\ LET u0 == SurfaceSearch(surface0, point, hint0, InnerTrials)
           u1 == SurfaceSearch(surface1, point, hint1, InnerTrials)
       IN  IF u0 = None
           THEN /\ pc' = "done" /\ result' = None /\ searches' = searches + 1
                /\ UNCHANGED << uv0, uv1 >>
           ELSE IF u1 = None
           THEN /\ pc' = "done" /\ result' = None /\ searches' = searches + 2
                /\ uv0' = u0 /\ UNCHANGED uv1
           ELSE /\ pc' = "loop" /\ searches' = searches + 2
                /\ uv0' = u0 /\ uv1' = u1 /\ UNCHANGED result
    /\ UNCHANGED << surface0, surface1, hint0, hint1, normal, trials, point,
                    iters, corrections, passed, prior, cvvars >>

\* lines 20-37: one pass through the loop body
DPLoop ==
    /\ pc = "loop"
    /\ BudgetLeft(iters, trials)
    /\ LET o == LoopBody(surface0, surface1, normal, point, uv0, uv1)
       IN  /\ iters' = iters + 1
           /\ searches' = searches + o.searches
           /\ corrections' = corrections + o.corrections
           /\ point' = o.point /\ uv0' = o.uv0 /\ uv1' = o.uv1
           /\ passed' = (o.tag = "return")
           /\ pc' = IF o.tag = "next" THEN "loop" ELSE "done"
           /\ result' = IF o.tag = "return" THEN Triple(o.point, o.uv0, o.uv1)
                        ELSE None
    /\ UNCHANGED << surface0, surface1, hint0, hint1, normal, trials, prior,
                    cvvars >>

\* lines 38-43: the budget is spent
DPExhausted ==
    /\ pc = "loop"
    /\ ~BudgetLeft(iters, trials)
    /\ pc' = "done"
    /\ result' = None
    /\ UNCHANGED << surface0, surface1, hint0, hint1, normal, trials, point,
                    uv0, uv1, iters, searches, corrections, passed, prior,
                    cvvars >>

\* a second call on the same surfaces and direction, from the point and the
\* parameters the first call returned, with any budget of at least 1
DPAgain ==
    /\ pc = "done"
    /\ result # None
    /\ prior = None
    /\ prior' = result
    /\ point' = result[1] /\ hint0' = result[2] /\ hint1' = result[3]
    /\ trials' \in 1..MaxTrials
    /\ uv0' = None /\ uv1' = None
    /\ pc' = "start"
    /\ iters' = 0 /\ searches' = 0 /\ corrections' = 0
    /\ passed' = FALSE
    /\ result' = None
    /\ UNCHANGED << surface0, surface1, normal, cvvars >>

NextDP == DPBegin \/ DPLoop \/ DPExhausted \/ DPAgain

SpecDP == InitDP /\ [][NextDP]_vars

----------------------------------------------------------------------------
(* The curve capability of the leader, on straight lines.  A leader is a   *)
(* record [o, v, lo, hi]: t |-> o + t * v on the parameter range lo..hi.   *)

\* ParametricCurve::subs
LeaderSubs(l, t) == Add(l.o, Scale(t, l.v))

\* ParametricCurve::der
LeaderDer(l, t) == l.v

\* ParametricCurve::parameter_range
LeaderRange(l) == << l.lo, l.hi >>

\* Invertible::invert: the same range, run through backwards
LeaderInvert(l) ==
    [ o |-> Add(l.o, Scale(l.lo + l.hi, l.v)), v |-> Scale(-1, l.v),
      lo |-> l.lo, hi |-> l.hi ]

\* Cut::cut: << the part the receiver keeps, the part that is returned >>
LeaderCut(l, t) == << [ l EXCEPT !.hi = t ], [ l EXCEPT !.lo = t ] >>

SqDist(p, q) == Dot(Sub(p, q), Sub(p, q))

\* the hint a search without hint starts from: the nearest of the integer
\* parameters of the range (the least one among equals)
Presearch(l, p) ==
    CHOOSE t \in l.lo..l.hi :
        \A r \in l.lo..l.hi :
            \/ SqDist(LeaderSubs(l, t), p) < SqDist(LeaderSubs(l, r), p)
            \/ SqDist(LeaderSubs(l, t), p) = SqDist(LeaderSubs(l, r), p) /\ t <= r

\* SearchNearestParameter::search_nearest_parameter of the leader: Newton's
\* iteration on f(t) = der(t) . (subs(t) - p) from the hint.  The hint is the
\* answer when f' or f vanishes there; otherwise the search does not converge
\* with no trials left (None), and on a line one step reaches the answer.
\* Some(t) is << t >>.
LeaderSearch(l, p, hint, n) ==
    LET h  == IF hint = None THEN Presearch(l, p) ELSE hint[1]
        f  == Dot(LeaderDer(l, h), Sub(LeaderSubs(l, h), p))
        fp == Dot(LeaderDer(l, h), LeaderDer(l, h))
    IN  IF fp = 0 \/ f = 0 THEN << h >>
        ELSE IF n = 0 THEN None
        ELSE << h - (f \div fp) >>

\* the query points on which that Newton step is exact
Exact(l, p) ==
    Dot(l.v, l.v) # 0 => Dot(l.v, Sub(l.o, p)) % Dot(l.v, l.v) = 0

----------------------------------------------------------------------------
(* IntersectionCurve.  An entity is a record [s0, s1, leader, tol]; s0 and *)
(* s1 name the boxes of store that hold its surfaces.                      *)

\* IntersectionCurve::surface0
Surface0(e) == store[e.s0]

\* IntersectionCurve::surface1
Surface1(e) == store[e.s1]

\* the budget search_triple gives double_projection
SearchTripleTrials == 100

\* a call that hands the surfaces over in the wrong order
SearchTripleSwapped(e, t) ==
    DoubleProjection(Surface1(e), None, Surface0(e), None,
                     LeaderSubs(e.leader, t), LeaderDer(e.leader, t),
                     SearchTripleTrials)

\* IntersectionCurve::search_triple
SearchTriple(e, t) ==
    DoubleProjection(Surface0(e), None, Surface1(e), None,
                     LeaderSubs(e.leader, t), LeaderDer(e.leader, t),
                     SearchTripleTrials)

\* what an operation gives back: a panic (an unwrap of an absent value), or a
\* tagged value
Panic == << "panic" >>

NonFinite == << "nonfinite" >>

\* IntersectionCurve::subs
Subs(e, t) ==
    LET r == SearchTriple(e, t)
    IN  IF r = None THEN Panic ELSE << "point", r[1] >>

\* InnerSpace::normalize: v / |v|, which is v for the unit vectors the cross
\* product of two axis normals gives, and not a number for the zero vector
Normalize(v) == IF v = Zero3 THEN NonFinite ELSE v

\* a derivative that is the unit tangent, not scaled to the leader
DerUnitSpeed(e, t) ==
    LET r == SearchTriple(e, t)
    IN  IF r = None THEN Panic
        ELSE LET d == Normalize(Cross(SurfaceNormal(Surface0(e), r[2]),
                                      SurfaceNormal(Surface1(e), r[3])))
             IN  IF d = NonFinite THEN NonFinite ELSE << "vector", d, 1 >>

\* IntersectionCurve::der.  The vector d * (n.n / d.n) is kept as the
\* fraction << "vector", num, den >> = num / den; a division by zero or a
\* normalized zero vector gives a vector of infinities and NaNs.
Der(e, t) ==
    LET n == LeaderDer(e.leader, t)
        r == SearchTriple(e, t)
    IN  IF r = None THEN Panic
        ELSE LET d == Normalize(Cross(SurfaceNormal(Surface0(e), r[2]),
                                      SurfaceNormal(Surface1(e), r[3])))
             IN  IF d = NonFinite THEN NonFinite
                 ELSE IF Dot(d, n) = 0 THEN NonFinite
                 ELSE << "vector", Scale(Dot(n, n), d), Dot(d, n) >>

\* IntersectionCurve::search_parameter
SearchParameter(e, p, hint, n) ==
    LET t == LeaderSearch(e.leader, p, hint, n)
    IN  IF t = None THEN Panic
        ELSE LET pt == Subs(e, t[1])
             IN  IF pt = Panic THEN Panic
                 ELSE IF Near(pt[2], p) THEN << "option", t >>
                 ELSE << "option", None >>

\* IntersectionCurve::search_nearest_parameter
SearchNearestParameter(e, p, hint, n) ==
    << "option", LeaderSearch(e.leader, p, hint, n) >>

----------------------------------------------------------------------------
(* Evaluating an IntersectionCurve: one read-only operation at a time, on  *)
(* an entity chosen at the start.                                          *)

DPIdle ==
    /\ surface0 = None /\ surface1 = None /\ hint0 = None /\ hint1 = None
    /\ normal = None /\ trials = 0 /\ point = None /\ uv0 = None /\ uv1 = None
    /\ pc = "idle" /\ iters = 0 /\ searches = 0 /\ corrections = 0
    /\ passed = FALSE /\ result = None /\ prior = None

\* directions of the leader: two axes and two diagonals
LeaderDirs == { Ex, Ey, << 1, 1, 0 >>, << 1, -1, 0 >> }

Leaders ==
    { [ o |-> Zero3, v |-> v, lo |-> 0 - MaxParam, hi |-> MaxParam ] :
        v \in LeaderDirs }

\* IntersectionCurve::new_unchecked
NewUnchecked(b0, b1, l, tol) == [ s0 |-> b0, s1 |-> b1, leader |-> l, tol |-> tol ]

InitEval ==
    /\ DPIdle
    /\ \E s0 \in ZPlanes, s1 \in Surfaces : store = << s0, s1 >>
    /\ \E l \in Leaders : curve = NewUnchecked(1, 2, l, 1)
    /\ piece = None
    /\ op = << >> /\ out = None
    /\ base = None /\ inverts = 0 /\ before = None

Params(l) == l.lo..l.hi

\* hints of a search on the leader: none, the middle or the end of the range
LeaderHints(l) == { None, << 0 >>, << l.hi >> }

\* query points of a search: the points of the plane z = 0
QueryPoints == { p \in Points : p[3] = 0 }

Idle == op = << >>

Reads(o, r) ==
    /\ op' = o
    /\ out' = r
    /\ UNCHANGED << dpvars, curve, piece, store, base, inverts, before >>

EvalSearchTriple ==
    /\ Idle
    /\ \E t \in Params(curve.leader) :
        Reads(<< "search_triple", t >>, << "option", SearchTriple(curve, t) >>)

EvalSubs ==
    /\ Idle
    /\ \E t \in Params(curve.leader) : Reads(<< "subs", t >>, Subs(curve, t))

EvalDer ==
    /\ Idle
    /\ \E t \in Params(curve.leader) : Reads(<< "der", t >>, Der(curve, t))

EvalSearchParameter ==
    /\ Idle
    /\ \E p \in QueryPoints, h \in LeaderHints(curve.leader), n \in 0..MaxTrials :
        /\ Exact(curve.leader, p)
        /\ Reads(<< "search_parameter", p, h, n >>,
                 SearchParameter(curve, p, h, n))

EvalSearchNearestParameter ==
    /\ Idle
    /\ \E p \in QueryPoints, h \in LeaderHints(curve.leader), n \in 0..MaxTrials :
        /\ Exact(curve.leader, p)
        /\ Reads(<< "search_nearest_parameter", p, h, n >>,
                 SearchNearestParameter(curve, p, h, n))

\* the caller takes the result
Taken ==
    /\ op # << >>
    /\ op' = << >>
    /\ out' = None
    /\ UNCHANGED << dpvars, curve, piece, store, base, inverts, before >>

NextEval ==
    \/ EvalSearchTriple
    \/ EvalSubs
    \/ EvalDer
    \/ EvalSearchParameter
    \/ EvalSearchNearestParameter
    \/ Taken

SpecEval == InitEval /\ [][NextEval]_vars

----------------------------------------------------------------------------
(* Matrix4 of cgmath: four columns of four entries, m[c][r] being a[c-1][r-1]. *)

Mat4(c1, c2, c3, tr) ==
    << << c1[1], c1[2], c1[3], 0 >>, << c2[1], c2[2], c2[3], 0 >>,
       << c3[1], c3[2], c3[3], 0 >>, << tr[1], tr[2], tr[3], 1 >> >>

\* Matrix4::transform_vector
TransformVector(m, v) ==
    << m[1][1] * v[1] + m[2][1] * v[2] + m[3][1] * v[3],
       m[1][2] * v[1] + m[2][2] * v[2] + m[3][2] * v[3],
       m[1][3] * v[1] + m[2][3] * v[2] + m[3][3] * v[3] >>

\* Matrix4::transform_point, for a matrix whose bottom row is (0, 0, 0, 1)
TransformPoint(m, p) ==
    Add(TransformVector(m, p), << m[4][1], m[4][2], m[4][3] >>)

\* Transformed::transform_by of a plane: its origin and its two directions
SurfaceTransform(s, m) ==
    [ o |-> TransformPoint(m, s.o), a |-> TransformVector(m, s.a),
      b |-> TransformVector(m, s.b) ]

\* Transformed::transform_by of the leader
LeaderTransform(l, m) ==
    [ o |-> TransformPoint(m, l.o), v |-> TransformVector(m, l.v),
      lo |-> l.lo, hi |-> l.hi ]

\* a factor summed over all sixteen entries
TolFactorAll(m) ==
    LET Sq(c) == m[c][1] * m[c][1] + m[c][2] * m[c][2] + m[c][3] * m[c][3]
                 + m[c][4] * m[c][4]
    IN  Sq(1) + Sq(2) + Sq(3) + Sq(4)

\* lines 202-210: the factor the tolerance is multiplied by
TolFactor(m) ==
    m[1][1] * m[1][1] + m[1][2] * m[1][2] + m[1][3] * m[1][3]
    + m[2][1] * m[2][1] + m[2][2] * m[2][2] + m[2][3] * m[2][3]
    + m[3][1] * m[3][1] + m[3][2] * m[3][2] + m[3][3] * m[3][3]

----------------------------------------------------------------------------
(* The operations that change an IntersectionCurve.  Each gives the new    *)
(* entity (or entities) and the new store.                                 *)

\* the fields of an entity with its boxes opened, in the store st
ViewIn(e, st) ==
    [ surface0 |-> st[e.s0], surface1 |-> st[e.s1], leader |-> e.leader,
      tol |-> e.tol ]

View(e) == ViewIn(e, store)

\* an inversion that also exchanges the two surfaces
InvertEntitySwapping(e) ==
    [ e EXCEPT !.leader = LeaderInvert(@), !.s0 = e.s1, !.s1 = e.s0 ]

\* Invertible::invert
InvertEntity(e) == [ e EXCEPT !.leader = LeaderInvert(@) ]

\* a cut whose result shares the boxes of the receiver
CutEntitySharing(e, t, st) ==
    << [ e EXCEPT !.leader = LeaderCut(e.leader, t)[1] ],
       NewUnchecked(e.s0, e.s1, LeaderCut(e.leader, t)[2], e.tol),
       st >>

\* Cut::cut: << the receiver, the returned entity, the store >>; the clones
\* of the two boxed surfaces are new boxes
CutEntity(e, t, st) ==
    << [ e EXCEPT !.leader = LeaderCut(e.leader, t)[1] ],
       NewUnchecked(Len(st) + 1, Len(st) + 2, LeaderCut(e.leader, t)[2], e.tol),
       st \o << st[e.s0], st[e.s1] >> >>

\* Transformed::transform_by: << the entity, the store >>
TransformEntity(e, m, st) ==
    << [ e EXCEPT !.leader = LeaderTransform(@, m), !.tol = @ * TolFactor(m) ],
       [ st EXCEPT ![e.s0] = SurfaceTransform(@, m),
                   ![e.s1] = SurfaceTransform(@, m) ] >>

----------------------------------------------------------------------------
(* Changing an IntersectionCurve and the entity cut off from it.           *)

\* a run of at most MaxInverts inverts of the receiver is followed
MaxInverts == 2
\* transforms are applied while the tolerance stays at most MaxTol
MaxTol == 12

Identity4 == Mat4(Ex, Ey, Ez, Zero3)
\* the quarter turn about the z axis
RotZ == Mat4(Ey, << -1, 0, 0 >>, Ez, Zero3)
\* the translation by (1, 0, 0)
TranslateX == Mat4(Ex, Ey, Ez, Ex)
\* the scaling by 2
Scale2 == Mat4(Scale(2, Ex), Scale(2, Ey), Scale(2, Ez), Zero3)

Transforms == { Identity4, RotZ, TranslateX, Scale2 }

Snapshot ==
    [ curve |-> View(curve),
      piece |-> IF piece = None THEN None ELSE View(piece[1]) ]

InitEdit ==
    /\ DPIdle
    /\ store = << PlaneAt(<< Ex, Ey >>, 0), PlaneAt(<< Ey, Ez >>, 0) >>
    /\ \E l \in { k \in Leaders : k.v[2] = 1 }, tol \in 1..2 :
           curve = NewUnchecked(1, 2, l, tol)
    /\ piece = None
    /\ op = << >> /\ out = None
    /\ base = View(curve) /\ inverts = 0 /\ before = None

InvertCurve ==
    /\ inverts < MaxInverts
    /\ curve' = InvertEntity(curve)
    /\ inverts' = inverts + 1
    /\ op' = << "invert", "curve" >> /\ out' = None
    /\ before' = Snapshot
    /\ UNCHANGED << dpvars, piece, store, base >>

InvertPiece ==
    /\ piece # None
    /\ piece' = << InvertEntity(piece[1]) >>
    /\ op' = << "invert", "piece" >> /\ out' = None
    /\ before' = Snapshot
    /\ UNCHANGED << dpvars, curve, store, base, inverts >>

Cut ==
    /\ piece = None
    /\ \E t \in Params(curve.leader) :
           LET r == CutEntity(curve, t, store)
           IN  /\ curve' = r[1]
               /\ piece' = << r[2] >>
               /\ store' = r[3]
               /\ op' = << "cut", t >>
               /\ out' = r[2]
               /\ base' = ViewIn(r[1], r[3])
    /\ inverts' = 0
    /\ before' = Snapshot
    /\ UNCHANGED dpvars

TransformCurve ==
    \E m \in Transforms :
        /\ curve.tol * TolFactor(m) <= MaxTol
        /\ LET r == TransformEntity(curve, m, store)
           IN  /\ curve' = r[1]
               /\ store' = r[2]
               /\ base' = ViewIn(r[1], r[2])
        /\ inverts' = 0
        /\ op' = << "transform_by", "curve", m >> /\ out' = None
        /\ before' = Snapshot
        /\ UNCHANGED << dpvars, piece >>

TransformPiece ==
    /\ piece # None
    /\ \E m \in Transforms :
        /\ piece[1].tol * TolFactor(m) <= MaxTol
        /\ LET r == TransformEntity(piece[1], m, store)
           IN  /\ piece' = << r[1] >>
               /\ store' = r[2]
        /\ op' = << "transform_by", "piece", m >> /\ out' = None
        /\ before' = Snapshot
        /\ UNCHANGED << dpvars, curve, base, inverts >>

NextEdit == InvertCurve \/ InvertPiece \/ Cut \/ TransformCurve \/ TransformPiece

SpecEdit == InitEdit /\ [][NextEdit]_vars

----------------------------------------------------------------------------
(* Properties of double_projection.                                        *)

Returned == pc = "done" /\ result # None

\* C1: whenever double_projection returns a triple (point, uv0, uv1), uv0 and
\* uv1 are what the nearest-parameter searches give from that point, the
\* point is near surface0(uv0) and near surface1(uv1), and the two surface
\* points are near each other; the triple comes from a pass whose check held.
C1_ReturnedTripleConverged ==
    Returned =>
        LET p   == result[1]
            pt0 == SurfaceSubs(surface0, result[2])
            pt1 == SurfaceSubs(surface1, result[3])
        IN  /\ passed
            /\ result[2] = SurfaceSearch(surface0, p, None, InnerTrials)
            /\ result[3] = SurfaceSearch(surface1, p, None, InnerTrials)
            /\ Near(p, pt0) /\ Near(p, pt1) /\ Near(pt0, pt1)

\* a call that returned a triple after a linear-correction step
C1_Witness == Returned /\ corrections = 1 /\ prior = None

\* the counts of a call with budget trials: at most trials passes, hence at
\* most trials correction steps and at most 2 + 2 * trials searches; absent
\* is returned unless a pass held the convergence check
Bounded ==
    /\ iters <= trials
    /\ corrections <= iters
    /\ searches <= 2 + 2 * iters
    /\ (pc = "done" /\ ~passed => result = None)

\* every step of a call that has not returned either returns, or enters the
\* loop, or is a pass that uses up one unit of the budget that is left
Progress ==
    pc # "done" =>
        \/ pc' = "done"
        \/ pc = "start" /\ pc' = "loop" /\ iters' = iters
        \/ pc = "loop" /\ pc' = "loop" /\ iters < trials /\ iters' = iters + 1

\* C2: every call terminates within its budget: its counts stay within the
\* bounds above and each of its steps makes progress towards the return, so
\* that a call takes at most trials + 2 steps; without convergence it returns
\* absent.
C2_TerminatesWithinBudget == []Bounded /\ [][Progress]_vars

\* a call that spent a budget of at least 1 without converging
C2_Witness ==
    pc = "done" /\ result = None /\ trials >= 1 /\ iters = trials /\ ~passed
    /\ searches = 2 + 2 * trials

Parallel(s0, s1) ==
    Cross(SurfaceNormal(s0, << 0, 0 >>), SurfaceNormal(s1, << 0, 0 >>)) = Zero3

\* the distance between two parallel planes exceeds the tolerance
Apart(s0, s1) == Abs(Dot(Sub(s1.o, s0.o), SurfaceNormal(s0, << 0, 0 >>))) > Tol

C8_Idempotent ==
    prior # None =>
        /\ corrections = 0
        /\ iters <= 1
        /\ (pc = "done" =>
              /\ result # None
              /\ iters = 1
              /\ result[1] = prior[1]
              /\ Near(SurfaceSubs(surface0, result[2]), SurfaceSubs(surface0, prior[2]))
              /\ Near(SurfaceSubs(surface1, result[3]), SurfaceSubs(surface1, prior[3])))

\* a second call that returned, from a point that is on neither surface
C8_Witness ==
    /\ prior # None /\ Returned
    /\ result[1] # SurfaceSubs(surface0, result[2])
    /\ result[1] # SurfaceSubs(surface1, result[3])

----------------------------------------------------------------------------
(* Properties of the evaluation of an IntersectionCurve.                   *)

\* surface0 is the plane z = 0 by (x, y), surface1 the plane x = 0 by (y, z),
\* and the leader is t |-> (0, t, 0)
Scenario ==
    /\ Surface0(curve) = PlaneAt(<< Ex, Ey >>, 0)
    /\ Surface1(curve) = PlaneAt(<< Ey, Ez >>, 0)
    /\ curve.leader.o = Zero3
    /\ curve.leader.v = Ey

\* C4: in that scenario the entity at t is exactly the point (0, t, 0), with
\* the parameters (0, t) on surface0 and (t, 0) on surface1, found in the
\* first pass (a budget of 1 gives the same triple, so no correction step is
\* taken); the derivative is (0, 1, 0), the cross product of the normals
\* scaled by 1.
C4_ScenarioExact ==
    Scenario /\ op # << >> =>
        LET t == op[2]
            triple == Triple(<< 0, t, 0 >>, << 0, t >>, << t, 0 >>)
        IN  /\ op[1] = "search_triple" =>
                /\ out = << "option", triple >>
                /\ DoubleProjection(Surface0(curve), None, Surface1(curve), None,
                                    << 0, t, 0 >>, Ey, 1) = triple
            /\ op[1] = "subs" => out = << "point", << 0, t, 0 >> >>
            /\ op[1] = "der" =>
                /\ out = << "vector", << 0, 1, 0 >>, 1 >>
                /\ Cross(SurfaceNormal(Surface0(curve), << 0, t >>),
                         SurfaceNormal(Surface1(curve), << t, 0 >>)) = << 0, 1, 0 >>

\* the derivative of the scenario, taken away from the origin
C4_Witness == Scenario /\ op = << "der", 1 >> /\ out = << "vector", Ey, 1 >>

\* the cross product of the normals at the parameters of a triple
CrossOfNormals(e, r) ==
    Cross(SurfaceNormal(Surface0(e), r[2]), SurfaceNormal(Surface1(e), r[3]))

\* der was called at a parameter at which the solver converges
DerConverged ==
    /\ op # << >>
    /\ op[1] = "der"
    /\ SearchTriple(curve, op[2]) # None

\* the derivative num / den satisfies d . L = L . L and is parallel to c
DerAsClaimed(c, L) ==
    /\ out[1] = "vector"
    /\ out[3] # 0
    /\ Dot(out[2], L) = out[3] * Dot(L, L)
    /\ Cross(out[2], c) = Zero3
    /\ out[2] = Scale(Dot(L, L), c) /\ out[3] = Dot(c, L)

\* C5 as stated: at every parameter at which the solver converges, der gives
\* d with d . L = L . L and d parallel to the cross product c of the normals,
\* also when c is orthogonal to L or the normals are parallel.
C5_Original ==
    DerConverged =>
        DerAsClaimed(CrossOfNormals(curve, SearchTriple(curve, op[2])),
                     LeaderDer(curve.leader, op[2]))

\* C5, amended: at every parameter at which the solver converges and the
\* cross product c of the normals is not orthogonal to the leader's
\* derivative L (so that the normals are not parallel), der gives
\* d = c * (L.L / c.L), which satisfies d . L = L . L and is parallel to c.
C5_DerAlongLeader ==
    DerConverged =>
        LET c == CrossOfNormals(curve, SearchTriple(curve, op[2]))
            L == LeaderDer(curve.leader, op[2])
        IN  Dot(c, L) # 0 => DerAsClaimed(c, L)

\* a derivative taken where c . L is neither 0 nor 1 and L is not along c
C5_Witness ==
    /\ DerConverged
    /\ out[1] = "vector"
    /\ out[3] = -1
    /\ Cross(out[2], LeaderDer(curve.leader, op[2])) # Zero3

\* C6 as stated: search_parameter has two outcomes and neither is fatal: the
\* candidate t of the leader's search is returned if and only if the exact
\* point of the entity at t is near the query point, and absent is returned
\* in every other case, also when the leader's search does not converge.
C6_TwoOutcomes ==
    op # << >> /\ op[1] = "search_parameter" =>
        LET t == LeaderSearch(curve.leader, op[2], op[3], op[4])
            accepted ==
                /\ t # None
                /\ SearchTriple(curve, t[1]) # None
                /\ Near(SearchTriple(curve, t[1])[1], op[2])
        IN  /\ out[1] = "option"
            /\ out[2] = IF accepted THEN t ELSE None

----------------------------------------------------------------------------
(* Properties of the operations that change an IntersectionCurve.          *)

\* the last operation was transform_by
Transformed == op # << >> /\ op[1] = "transform_by"

\* the entity the last transform_by acted on, before and after it
TargetBefore == IF op[2] = "curve" THEN before.curve ELSE before.piece

TargetAfter == IF op[2] = "curve" THEN View(curve) ELSE View(piece[1])

\* the columns of the upper-left 3 x 3 block
Block(m) ==
    << << m[1][1], m[1][2], m[1][3] >>, << m[2][1], m[2][2], m[2][3] >>,
       << m[3][1], m[3][2], m[3][3] >> >>

\* the block is orthogonal: its columns are orthonormal
Orthogonal(m) ==
    \A i \in 1..3, j \in 1..3 :
        Dot(Block(m)[i], Block(m)[j]) = IF i = j THEN 1 ELSE 0

\* the matrix with the same block, the translation tr and the bottom row row
Bordered(m, tr, row) ==
    << << m[1][1], m[1][2], m[1][3], row[1] >>,
       << m[2][1], m[2][2], m[2][3], row[2] >>,
       << m[3][1], m[3][2], m[3][3], row[3] >>,
       << tr[1], tr[2], tr[3], 1 >> >>

\* the vectors the distortion is measured on
TestVectors == Dirs \cup QueryPoints

\* C7 as stated, for an orthogonal block: the factor is the squared
\* distortion 1 and transform_by leaves the tolerance as it was.
C7_Original ==
    Transformed /\ Orthogonal(op[3]) =>
        /\ TolFactor(op[3]) = 1
        /\ TargetAfter.tol = TargetBefore.tol

\* C7, amended: transform_by multiplies the tolerance by the sum of the
\* squares of the nine entries of the upper-left 3 x 3 block; the translation
\* column and the bottom row have no effect on the factor; the factor is an upper bound of the squared
\* distortion of distances, which is not tight for an orthogonal block: there
\* distances are preserved, the factor is 3 and the tolerance is tripled.
C7_ToleranceRescaled ==
    Transformed =>
        LET m == op[3]
            sumsq == Dot(Block(m)[1], Block(m)[1]) + Dot(Block(m)[2], Block(m)[2])
                     + Dot(Block(m)[3], Block(m)[3])
        IN  /\ TargetAfter.tol = TargetBefore.tol * sumsq
            /\ \A tr \in Dirs, row \in Dirs :
                   TolFactor(Bordered(m, tr, row)) = TolFactor(m)
            /\ \A x \in TestVectors :
                   Dot(TransformVector(m, x), TransformVector(m, x))
                       <= sumsq * Dot(x, x)
            /\ Orthogonal(m) =>
                   /\ \A x \in TestVectors :
                          Dot(TransformVector(m, x), TransformVector(m, x)) = Dot(x, x)
                   /\ TargetAfter.tol = 3 * TargetBefore.tol

\* the quarter turn applied to an entity whose tolerance was 1
C7_Witness ==
    /\ Transformed /\ op[3] = RotZ
    /\ TargetBefore.tol = 1 /\ TargetAfter.tol = 3

\* C9: a run of inverts changes only the leader: surface0, surface1 and the
\* tolerance are those from before the run; after an even number of inverts
\* the leader is the one from before the run, and after an odd number it is
\* that leader run through backwards, on the same range.
C9_InvertOnlyLeader ==
    /\ View(curve).surface0 = base.surface0
    /\ View(curve).surface1 = base.surface1
    /\ View(curve).tol = base.tol
    /\ LeaderRange(curve.leader) = LeaderRange(base.leader)
    /\ inverts % 2 = 0 =>
           /\ curve.leader = base.leader
           /\ \A t \in Params(curve.leader) :
                  /\ LeaderSubs(curve.leader, t) = LeaderSubs(base.leader, t)
                  /\ LeaderDer(curve.leader, t) = LeaderDer(base.leader, t)
    /\ inverts % 2 = 1 =>
           \A t \in Params(curve.leader) :
               /\ LeaderSubs(curve.leader, t)
                      = LeaderSubs(base.leader, base.leader.lo + base.leader.hi - t)
               /\ LeaderDer(curve.leader, t) = Scale(-1, LeaderDer(base.leader, t))

\* two inverts in a row of a leader whose range is not symmetric about 0
C9_Witness ==
    /\ inverts = 2
    /\ op = << "invert", "curve" >>
    /\ curve.leader.lo + curve.leader.hi # 0
    /\ curve.leader = base.leader

\* C10: cut(t) splits only the leader: the receiver and the returned entity
\* hold, in boxes of their own, surfaces equal to those of the receiver
\* before the call, and its tolerance; the receiver keeps the part of the
\* leader up to t and the returned entity holds the part from t on.  An
\* invert or transform_by of one of the two entities afterwards leaves the
\* surfaces, the leader and the tolerance of the other as they were.
C10_CutSplitsLeader ==
    /\ op # << >> /\ op[1] = "cut" =>
           LET was == before.curve
           IN  /\ piece = << out >>
               /\ { curve.s0, curve.s1 } \cap { out.s0, out.s1 } = { }
               /\ View(curve).surface0 = was.surface0
               /\ View(curve).surface1 = was.surface1
               /\ View(out).surface0 = was.surface0
               /\ View(out).surface1 = was.surface1
               /\ curve.tol = was.tol /\ out.tol = was.tol
               /\ << curve.leader, out.leader >> = LeaderCut(was.leader, op[2])
               /\ curve.leader = [ was.leader EXCEPT !.hi = op[2] ]
               /\ out.leader = [ was.leader EXCEPT !.lo = op[2] ]
    /\ op # << >> /\ op[1] \in { "invert", "transform_by" } /\ piece # None =>
           IF op[2] = "curve"
           THEN View(piece[1]) = before.piece
           ELSE View(curve) = before.curve

\* the returned entity was scaled, and the receiver is as it was
C10_Witness ==
    /\ op = << "transform_by", "piece", Scale2 >>
    /\ View(curve) = before.curve
    /\ View(piece[1]).surface0 # View(curve).surface0

====
